---- MODULE Spec2Model ----
(***************************************************************************)
(* A model of Snowflake's rainbow-table engine (snowflake.c): reduction,   *)
(* chain walking, the generator pool, the in-place quicksort, the lookup   *)
(* (binary search + chain regeneration), the exhaustive searcher and the   *)
(* table-name codec.                                                       *)
(*                                                                         *)
(* C arrays are 0-based; a table is a TLA+ sequence and At(t, i) reads the *)
(* record the C code calls table[i].  unsigned int is 32 bits wide.        *)
(***************************************************************************)
EXTENDS Integers, Sequences, FiniteSets, TLC

VARIABLES
  pc,          \* position of the single-threaded operation being run
  \* ---- table, sorter, lookup
  table,       \* the mmap'd array of chain records
  orig,        \* sorter runs: the records as sortRainbowTable found them
  chainLen,    \* chain length of the table
  hashTab,     \* the plug-in hash function, as a lookup table (see hashFunc)
  planted,     \* ... with these seeds' digests set apart (see hashFunc)
  hashLen,     \* its digest length
  charSigned,  \* whether the build's plain char is signed
  targetHash,  \* the digest searched for
  j,           \* searchHashInMemory: outer loop counter
  r,           \* searchHashInMemory: reduced endpoint searched for
  index,       \* searchHashInMemory / searchTable: *index
  cur,         \* the record table[index] as read by the do/while
  seed,        \* *seed: <<>> until something writes it, then <<value>>
  rejected,    \* start-points regenerateChain has reported as false positives
  result,      \* return value of the operation, once pc says it has returned
  \* ---- the two thread pools (createRainbowTable, searchHashOnline)
  threads,     \* threadNum / threads: what sysconf(_SC_NPROCESSORS_ONLN) gave
  mi,          \* the spawning function's loop counter i
  start,       \* searchHashOnline: start
  opt,         \* searchHashOnline: opt[i].start, opt[i].end
  args,        \* createRainbowTable: args[i].chainNum
  wpc,         \* position of each worker thread
  wi,          \* each worker's loop counter i
  wret,        \* chainGenerationWorker: each worker's return value
  found,       \* searchHashOnline: the shared flag
  mutex,       \* the writer lock: 0 when free, else 1 + the holder's number
  genChainNum, \* createRainbowTable: its argument chainNum
  tableFile,   \* the table file: the blocks fwrite appended, in order
  status,      \* createRainbowTable: status
  \* ---- table-name codec
  tablename,   \* the file name, a sequence of characters
  nameArgs,    \* generateTableName: its arguments
  hashFuncName,\* parseTablename: *hashFuncName (<<>> while unwritten)
  outChainNum, \* parseTablename: *chainNum, <<>> while unwritten
  outChainLen, \* parseTablename: *chainLen, <<>> while unwritten
  \* ---- the environment
  fault        \* the call that fails in this run: "none", or "resolve"
               \* (resolveHashFunc gives NULL), "open", "fstat", "mmap"

sortVars   == <<table, orig>>
hashVars   == <<chainLen, hashTab, planted, hashLen, charSigned, targetHash>>
lookupVars == <<j, r, index, cur, seed, rejected>>
poolVars   == <<threads, mi, start, opt, args, wpc, wi, wret, found, mutex,
                genChainNum, tableFile, status>>
nameVars   == <<tablename, nameArgs, hashFuncName, outChainNum, outChainLen>>
vars       == <<pc, sortVars, hashVars, lookupVars, result, poolVars,
                nameVars, fault>>

----------------------------------------------------------------------------
(* 32-bit words.  TLC's integers are the 32-bit two's-complement ints, so  *)
(* an unsigned int is modelled by the int with the same bit pattern: u     *)
(* itself below 2^31, and u - 2^32 from 2^31 up (0xffffffff is -1).  The   *)
(* conversions (int)u and (unsigned)i keep the bit pattern and are the     *)
(* identity here; the U* operators give the unsigned reading.              *)

MaxInt == 2147483647
MinInt == -MaxInt - 1

\* the top bit and the low 31 bits of a word
TopBit(a) == IF a < 0 THEN 1 ELSE 0
Low31(a) == IF a < 0 THEN a - MinInt ELSE a
Word(top, low) == IF top = 1 THEN low + MinInt ELSE low

\* a < b and a <= b for unsigned a, b
ULt(a, b) == IF (a < 0) = (b < 0) THEN a < b ELSE b < 0
ULeq(a, b) == a = b \/ ULt(a, b)

\* (a + b) mod 2^32
UAdd(a, b) ==
  LET la == Low31(a)
      lb == Low31(b)
      carry == IF la > MaxInt - lb THEN 1 ELSE 0
      low == IF carry = 1 THEN (la - (MaxInt - lb)) - 1 ELSE la + lb
  IN  Word((TopBit(a) + TopBit(b) + carry) % 2, low)

\* a / t for unsigned a and 1 <= t < 2^31.  For a >= 2^31 write
\* a = x + 2^31 and 2^31 = t*q0 + r0.
UDiv(a, t) ==
  IF a >= 0 THEN a \div t
  ELSE IF t = 1 THEN a
  ELSE LET x  == Low31(a)
           r1 == (MaxInt % t) + 1
           q0 == (MaxInt \div t) + (IF r1 = t THEN 1 ELSE 0)
           r0 == IF r1 = t THEN 0 ELSE r1
       IN  q0 + (x \div t) + ((r0 + (x % t)) \div t)

\* a % t for unsigned a and 1 <= t < 2^30
UMod(a, t) ==
  IF a >= 0 THEN a % t
  ELSE ((Low31(a) % t) + ((MaxInt % t) + 1)) % t

RECURSIVE XorN(_, _)
XorN(a, b) ==
  IF a = 0 THEN b
  ELSE IF b = 0 THEN a
  ELSE (((a % 2) + (b % 2)) % 2) + 2 * XorN(a \div 2, b \div 2)

\* a ^ b
UXor(a, b) ==
  Word((TopBit(a) + TopBit(b)) % 2, XorN(Low31(a), Low31(b)))

----------------------------------------------------------------------------
(* reduce: digest -> 32-bit seed.  A digest is a sequence of bytes 0..255; *)
(* the C index k is the TLA+ index k+1.                                    *)

\* *hashInt for the k-th 32-bit word of the digest (host order: little-endian)
HashWord(hash, k) ==
  Word(hash[4*k + 4] \div 128,
       hash[4*k + 1] + 256 * hash[4*k + 2] + 65536 * hash[4*k + 3]
         + 16777216 * (hash[4*k + 4] % 128))

\* (chainEntry) c for a plain char holding byte b: sign-extended when char
\* is signed (b - 256 is the word 0xffffff00 + b), zero-extended otherwise
CharToEntry(b) == IF charSigned /\ b >= 128 THEN b - 256 ELSE b

\* for (i = 0; i < hashLen / 4; i++, hashInt++) reduced ^= *hashInt;
RECURSIVE XorWords(_, _, _)
XorWords(hash, k, n) ==
  IF k >= n THEN 0 ELSE UXor(HashWord(hash, k), XorWords(hash, k + 1, n))

\* for (i = 0; i < hashLen % 4; i++) reduced += hash[hashLen - 1 - i];
RECURSIVE AddTail(_, _, _, _)
AddTail(hash, hLen, i, reduced) ==
  IF i >= hLen % 4 THEN reduced
  ELSE AddTail(hash, hLen, i + 1, UAdd(reduced, CharToEntry(hash[hLen - i])))

reduce(hash, hLen, round) ==
  UXor(AddTail(hash, hLen, 0, XorWords(hash, 0, hLen \div 4)), round)

----------------------------------------------------------------------------
(* The plug-in hash function.  It is external to the engine; the model     *)
(* draws it from the family  seed |-> <<hashTab[seed mod NumHashSeeds]>>   *)
(* of one-byte digests, which holds injective and colliding functions,     *)
(* except at the seeds of DOMAIN planted, whose digest is planted[seed].   *)

NumHashSeeds == 2
MaxDigestByte == 1

HashSeeds == 0 .. (NumHashSeeds - 1)
DigestBytes == 0 .. MaxDigestByte
HashTabs == [HashSeeds -> DigestBytes]

hashFunc(s) ==
  IF s \in DOMAIN planted THEN <<planted[s]>>
  ELSE <<hashTab[UMod(s, NumHashSeeds)]>>

\* !memcmp(a, b, hashLen)
SameDigest(a, b) == \A k \in 1 .. hashLen : a[k] = b[k]

----------------------------------------------------------------------------
(* Chain walker *)

RECURSIVE WalkFrom(_, _, _)
WalkFrom(tmp, i, cLen) ==
  IF i >= cLen THEN tmp
  ELSE WalkFrom(reduce(hashFunc(tmp), hashLen, i), i + 1, cLen)

\* generateChain, with the value rand_cmwc_r() returned passed in
generateChain(rnd, cLen) ==
  [startpoint |-> rnd, endpoint |-> WalkFrom(rnd, 0, cLen)]

----------------------------------------------------------------------------
(* Sorter *)

At(t, i) == t[i + 1]

swap(t, a, b) ==
  [t EXCEPT ![a + 1] = t[b + 1], ![b + 1] = t[a + 1]]

\* table[l].endpoint <= piv with "int piv": the int is converted back to
\* unsigned, so the comparison is an unsigned one
PivotLE_signed(e, piv) == e <= piv
PivotLE(e, piv) == ULeq(e, piv)

RECURSIVE PartitionLoop(_, _, _, _)
PartitionLoop(t, piv, l, rr) ==
  IF l < rr
  THEN IF PivotLE(At(t, l).endpoint, piv)
       THEN PartitionLoop(t, piv, l + 1, rr)
       ELSE PartitionLoop(swap(t, l, rr - 1), piv, l, rr - 1)
  ELSE [t |-> t, l |-> l, r |-> rr]

RECURSIVE quickSortTable(_, _, _)
quickSortTable(t, beg, end) ==
  IF end > beg + 1
  THEN LET p  == PartitionLoop(t, At(t, beg).endpoint, beg + 1, end)
           l1 == p.l - 1
           t1 == swap(p.t, l1, beg)
           t2 == quickSortTable(t1, beg, l1)
       IN  quickSortTable(t2, p.r, end)
  ELSE t

MaxSortLen == 4
MaxSortStart == 1

\* endpoints on both sides of 2^31: 0, 1, 0x80000000, 0xffffffff
SortEndpoints == {0, 1, MinInt, -1}

SortChains ==
  [startpoint : 0 .. MaxSortStart, endpoint : SortEndpoints]

SeqsUpTo(S, n) == UNION {[1 .. k -> S] : k \in 0 .. n}

HashIdle ==
  /\ chainLen = 0 /\ hashTab = <<>> /\ hashLen = 0 /\ charSigned = TRUE
  /\ targetHash = <<>> /\ planted = <<>>

PoolIdle ==
  /\ threads = 0 /\ mi = 0 /\ start = 0 /\ opt = <<>> /\ args = <<>>
  /\ wpc = <<>> /\ wi = <<>> /\ wret = <<>> /\ found = 0 /\ mutex = 0
  /\ genChainNum = 0 /\ tableFile = <<>> /\ status = 0

NameIdle ==
  /\ tablename = <<>> /\ nameArgs = <<>> /\ hashFuncName = <<>>
  /\ outChainNum = <<>> /\ outChainLen = <<>>

LookupIdle ==
  /\ j = 0 /\ r = 0 /\ index = 0 /\ cur = <<>> /\ seed = <<>>
  /\ rejected = {}

InitSort ==
  /\ pc = "sort"
  /\ fault = "none"
  /\ table \in SeqsUpTo(SortChains, MaxSortLen)
  /\ orig = table
  /\ result = 0
  /\ HashIdle
  /\ LookupIdle
  /\ PoolIdle
  /\ NameIdle

\* sortRainbowTable once the file is mapped: quickSortTable(table, 0, chainNum)
SortTable ==
  /\ pc = "sort"
  /\ table' = quickSortTable(table, 0, Len(table))
  /\ pc' = "sorted"
  /\ result' = 1
  /\ UNCHANGED <<fault, poolVars, nameVars, orig, hashVars, lookupVars>>

NextSort == SortTable

SpecSort == InitSort /\ [][NextSort]_vars

IsSortedByEnd(t) ==
  \A i \in 1 .. (Len(t) - 1) : ULeq(t[i].endpoint, t[i + 1].endpoint)

\* how many times record c occurs in t
Occurrences(t, c) == Cardinality({i \in 1 .. Len(t) : t[i] = c})

IsPermutation(s, t) ==
  /\ Len(s) = Len(t)
  /\ \A i \in 1 .. Len(s) : Occurrences(s, s[i]) = Occurrences(t, s[i])

\* C2: after quickSortTable(table, 0, chain_num) the endpoints are
\* non-decreasing as unsigned 32-bit values and the records are a
\* permutation of the input records (each start with its own end).
C2_SortInvariant ==
  pc = "sorted" => IsSortedByEnd(table) /\ IsPermutation(orig, table)

\* a table with endpoints >= 2^31 out of order has been sorted
C2_Witness ==
  /\ pc = "sorted"
  /\ Len(orig) >= 3
  /\ ~IsSortedByEnd(orig)
  /\ \E i \in 1 .. Len(orig) : orig[i].endpoint < 0
  /\ \E i \in 1 .. Len(orig) : orig[i].endpoint >= 0

----------------------------------------------------------------------------
(* searchTable: binary search for an endpoint in table[0 .. chainNum-1],   *)
(* chainNum >= 1.                                                          *)

\* while (mid >= 0 && endpoint == table[mid--].endpoint);   (the final mid)
RECURSIVE WalkBack(_, _, _)
WalkBack(t, mid, endpoint) ==
  IF mid >= 0
  THEN IF endpoint = At(t, mid).endpoint
       THEN WalkBack(t, mid - 1, endpoint)
       ELSE mid - 1
  ELSE mid

\* the while (beg < end) loop; idx is what *index holds on entry
RECURSIVE SearchLoop(_, _, _, _, _)
SearchLoop(t, beg, end, endpoint, idx) ==
  IF beg < end
  THEN LET mid == (beg + end) \div 2
       IN  IF ULt(endpoint, At(t, mid).endpoint)
           THEN SearchLoop(t, beg, mid, endpoint, idx)
           ELSE IF ULt(At(t, mid).endpoint, endpoint)
           THEN SearchLoop(t, mid + 1, end, endpoint, idx)
           ELSE LET m == WalkBack(t, mid, endpoint)
                IN  [ret |-> 1, index |-> IF m < 0 THEN 0 ELSE m + 1]
  ELSE [ret |-> 0, index |-> idx]

searchTable(t, chainNum, endpoint, idx) ==
  SearchLoop(t, 0, chainNum - 1, endpoint, idx)

MaxSearchLen == 4

SearchChains == [startpoint : {0}, endpoint : SortEndpoints]

InitSearch ==
  /\ pc = "search"
  /\ fault = "none"
  /\ table \in {t \in SeqsUpTo(SearchChains, MaxSearchLen) :
                  Len(t) >= 1 /\ IsSortedByEnd(t)}
  /\ orig = <<>>
  /\ r \in SortEndpoints
  /\ index = 0
  /\ j = 0 /\ cur = <<>> /\ seed = <<>> /\ rejected = {}
  /\ result = 0
  /\ HashIdle
  /\ PoolIdle
  /\ NameIdle

\* one call searchTable(table, chainNum, r, &index)
SearchTable ==
  /\ pc = "search"
  /\ LET s == searchTable(table, Len(table), r, index)
     IN  /\ result' = s.ret
         /\ index' = s.index
  /\ pc' = "searched"
  /\ UNCHANGED <<fault, poolVars, nameVars, sortVars, hashVars, j, r, cur,
                 seed,
                 rejected>>

NextSearch == SearchTable

SpecSearch == InitSearch /\ [][NextSearch]_vars

\* the C indexes of the records whose endpoint is e
IndexesOf(t, e) == {i \in 0 .. (Len(t) - 1) : At(t, i).endpoint = e}

Lowest(S) == CHOOSE i \in S : \A k \in S : i <= k

\* C3: on a sorted table with chain_num >= 1, searchTable reports found
\* exactly when some record has end == r, and then *index is the lowest
\* index whose end == r.
C3_BinarySearchFirst ==
  pc = "searched" =>
    /\ (result = 1) <=> (IndexesOf(table, r) # {})
    /\ result = 1 => index = Lowest(IndexesOf(table, r))

\* what the code does instead: the last record is never looked at, and the
\* index handed back is that of the record before the first equal one
\* (0 when the equal run starts at the head)
SearchTableBehaviour ==
  pc = "searched" =>
    LET seen == IndexesOf(table, r) \ {Len(table) - 1}
    IN  /\ (result = 1) <=> (seen # {})
        /\ result = 1 =>
             LET f == Lowest(IndexesOf(table, r))
             IN  index = IF f = 0 THEN 0 ELSE f - 1

----------------------------------------------------------------------------
(* Lookup: regenerateChain and searchHashInMemory *)

\* the for loop of regenerateChain from position i with tmp; sd is what
\* *seed holds on entry
RECURSIVE RegenFrom(_, _, _, _, _)
RegenFrom_noCompare(tmp, i, cLen, target, sd) ==
  [ret |-> 1, seed |-> <<tmp>>]
RegenFrom(tmp, i, cLen, target, sd) ==
  IF i >= cLen THEN [ret |-> 0, seed |-> sd]
  ELSE IF SameDigest(hashFunc(tmp), target)
  THEN [ret |-> 1, seed |-> <<tmp>>]
  ELSE RegenFrom(reduce(hashFunc(tmp), hashLen, i), i + 1, cLen, target, sd)

regenerateChain(startpoint, cLen, target, sd) ==
  RegenFrom(startpoint, 0, cLen, target, sd)

\* the inner loop of searchHashInMemory from i with tmpHash, followed by
\* the final  r = reduce(tmpHash, hashLen, i)
RECURSIVE WalkTarget(_, _, _)
WalkTarget(tmpHash, i, cLen) ==
  IF i < cLen - 1
  THEN WalkTarget(hashFunc(reduce(tmpHash, hashLen, i)), i + 1, cLen)
  ELSE reduce(tmpHash, hashLen, i)

MaxChains == 3
MaxChainLen == 2
MaxStart == 1
MaxOob == 1

LookupStarts == 0 .. MaxStart

\* what a read of table[index] past the last record can give (when it does
\* not fault): a record whose endpoint is or is not the one searched for,
\* with a start-point of any hash class
OobChains(rr) == [startpoint : HashSeeds, endpoint : {rr, UAdd(rr, 1)}]

\* the records createRainbowTable writes for the given start-points
RECURSIVE GeneratedTable(_, _)
GeneratedTable(starts, cLen) ==
  IF starts = <<>> THEN <<>>
  ELSE <<generateChain(Head(starts), cLen)>>
         \o GeneratedTable(Tail(starts), cLen)

\* the hash, the chain length and an empty table file
LookupInputs ==
  /\ hashTab \in HashTabs
  /\ planted = <<>>
  /\ hashLen = 1
  /\ charSigned = TRUE
  /\ chainLen \in 1 .. MaxChainLen
  /\ targetHash = <<>>
  /\ table = <<>>
  /\ orig = <<>>
  /\ result = 0
  /\ LookupIdle
  /\ PoolIdle
  /\ NameIdle

InitLookup ==
  /\ pc = "generate"
  /\ fault = "none"
  /\ LookupInputs

\* createRainbowTable: the file holds one chain per start-point drawn from
\* rand_cmwc_r(), in the order the workers appended them
GenerateTable ==
  /\ pc = "generate"
  /\ \E starts \in SeqsUpTo(LookupStarts, MaxChains) :
       /\ Len(starts) >= 1
       /\ table' = GeneratedTable(starts, chainLen)
  /\ pc' = "sort"
  /\ UNCHANGED <<fault, poolVars, nameVars, orig, hashVars, lookupVars,
                 result>>

\* searchRainbowTable: parseTablename, resolveHashFunc, open, fstat and mmap
\* succeed; it maps the sorted file and calls searchHashInMemory
StartLookup ==
  /\ pc = "sorted"
  /\ fault = "none"
  /\ Len(table) >= 1
  /\ \E b \in DigestBytes : targetHash' = <<b>>
  /\ j' = chainLen - 1
  /\ result' = 0
  /\ pc' = "lookup"
  /\ UNCHANGED <<fault, poolVars, nameVars, sortVars, chainLen, hashTab,
                 planted,
                 hashLen, charSigned,
                 r, index, cur, seed, rejected>>

\* for (j = chainLen - 1; j >= 0; j--): the loop has run out
LookupNotFound ==
  /\ pc = "lookup"
  /\ j < 0
  /\ result' = 0
  /\ pc' = "done"
  /\ UNCHANGED <<fault, poolVars, nameVars, sortVars, hashVars, lookupVars>>

\* one iteration of the outer loop up to the call of searchTable
LookupSearch ==
  /\ pc = "lookup"
  /\ j >= 0
  /\ LET rr == WalkTarget(targetHash, j, chainLen)
         s  == searchTable(table, Len(table), rr, index)
     IN  /\ r' = rr
         /\ index' = s.index
         /\ IF s.ret = 1
            THEN /\ cur' = At(table, s.index)
                 /\ pc' = "regen"
                 /\ j' = j
            ELSE /\ cur' = cur
                 /\ pc' = "lookup"
                 /\ j' = j - 1
  /\ UNCHANGED <<fault, poolVars, nameVars, sortVars, hashVars, seed,
                 rejected,
                 result>>

\* the body of the do/while: regenerateChain(table[index++].startpoint, ...)
LookupRegen ==
  /\ pc = "regen"
  /\ LET g == regenerateChain(cur.startpoint, chainLen, targetHash, seed)
     IN  IF g.ret = 1
         THEN /\ seed' = g.seed
              /\ result' = 1
              /\ pc' = "done"
              /\ UNCHANGED rejected
         ELSE /\ seed' = g.seed
              /\ rejected' = rejected \cup {cur.startpoint}
              /\ pc' = "cond"
              /\ UNCHANGED result
  /\ index' = index + 1
  /\ UNCHANGED <<fault, poolVars, nameVars, sortVars, hashVars, j, r, cur>>

\* while (table[index].endpoint == r), index inside the table
LookupCond ==
  /\ pc = "cond"
  /\ index < Len(table)
  /\ IF At(table, index).endpoint = r
     THEN /\ cur' = At(table, index)
          /\ pc' = "regen"
          /\ j' = j
     ELSE /\ cur' = cur
          /\ pc' = "lookup"
          /\ j' = j - 1
  /\ UNCHANGED <<fault, poolVars, nameVars, sortVars, hashVars, r, index,
                 seed,
                 rejected, result>>

\* while (table[index].endpoint == r), index past the last record: the
\* read is out of bounds and gives some record
LookupCondOob ==
  /\ pc = "cond"
  /\ index >= Len(table)
  /\ index < Len(table) + MaxOob
  /\ \E c \in OobChains(r) :
       IF c.endpoint = r
       THEN /\ cur' = c
            /\ pc' = "regen"
            /\ j' = j
       ELSE /\ cur' = cur
            /\ pc' = "lookup"
            /\ j' = j - 1
  /\ UNCHANGED <<fault, poolVars, nameVars, sortVars, hashVars, r, index,
                 seed,
                 rejected, result>>

\* ... or faults, and the process dies
LookupCondFault ==
  /\ pc = "cond"
  /\ index >= Len(table)
  /\ pc' = "fault"
  /\ UNCHANGED <<fault, poolVars, nameVars, sortVars, hashVars, lookupVars,
                 result>>

NextLookup ==
  \/ GenerateTable
  \/ SortTable
  \/ StartLookup
  \/ LookupNotFound
  \/ LookupSearch
  \/ LookupRegen
  \/ LookupCond
  \/ LookupCondOob
  \/ LookupCondFault

SpecLookup == InitLookup /\ [][NextLookup]_vars

\* the seeds at positions 0 .. cLen-1 of the chain that starts at s
ChainSeeds(s, cLen) == {WalkFrom(s, 0, i) : i \in 0 .. (cLen - 1)}

\* some position of the chain from s hashes to the target
ChainHolds(s, cLen, target) ==
  \E x \in ChainSeeds(s, cLen) : SameDigest(hashFunc(x), target)

\* C1: a sorted table of walked chains, a target H(s) for the start-point s
\* of one of its chains: the lookup returns Found with seed s.
C1_RoundTrip ==
  pc = "done" =>
    \A k \in 1 .. Len(table) :
      SameDigest(targetHash, hashFunc(table[k].startpoint)) =>
        result = 1 /\ seed = <<table[k].startpoint>>

\* the endpoint the lookup searches for at outer position jj
EndpointAt(jj) == WalkTarget(targetHash, jj, chainLen)

\* the records of the table that share endpoint e and regenerate the target
Confirming(e) ==
  {i \in IndexesOf(table, e) :
     ChainHolds(At(table, i).startpoint, chainLen, targetHash)}

\* C4: when the k >= 1 chains that share the searched endpoint include
\* exactly one whose start regenerates the target, the lookup returns the
\* seed recovered from that chain, wherever the k entries sit.
C4_DuplicateEnumeration ==
  pc = "done" =>
    \A jj \in 0 .. (chainLen - 1) :
      Cardinality(Confirming(EndpointAt(jj))) = 1 =>
        /\ result = 1
        /\ \E i \in Confirming(EndpointAt(jj)) :
             seed = regenerateChain(At(table, i).startpoint, chainLen,
                                    targetHash, <<>>).seed

\* the records the do/while of position jj has to try: the one searchTable
\* hands back and the records that follow it while their endpoint is r
Candidates(jj) ==
  LET s == searchTable(table, Len(table), EndpointAt(jj), 0)
  IN  IF s.ret = 0 THEN {}
      ELSE {s.index} \cup
           {i \in (s.index + 1) .. (Len(table) - 1) :
              \A m \in (s.index + 1) .. i :
                At(table, m).endpoint = EndpointAt(jj)}

----------------------------------------------------------------------------
(* Exhaustive searcher: searchHashOnline and its seedRecoveryWorker        *)
(* threads.  Every read and every write of the shared found and *seed is   *)
(* a step of its own.  The two stores of a worker that has a match are     *)
(* unsynchronised and may reach memory in either order.                    *)

MAX_SEED == -1      \* 0xffffffff

MaxThreads == 3
MaxPlanted == 2

\* the seeds the model may plant a matching digest at: both ends of the
\* seed space, the seed two workers' ranges meet at, and 0xDEADBEEF
PlantSeeds == {0, MaxInt, -559038737, MAX_SEED}

Workers == 0 .. (threads - 1)

\* !memcmp(opt->hash, opt->hashFunc(i, nh), opt->hashLen), negation dropped
Matches_negated(hash, i) == ~SameDigest(hash, hashFunc(i))

\* !memcmp(opt->hash, opt->hashFunc(i, nh), opt->hashLen)
Matches(hash, i) == SameDigest(hash, hashFunc(i))

\* the seeds after i, up to end, at which an iteration does more than poll
\* found: those that match, and end itself
Landmarks(i, end) ==
  LET near(x) == {UAdd(x, k) : k \in 1 .. NumHashSeeds}
      cand    == near(i) \cup DOMAIN planted
                   \cup UNION {near(p) : p \in DOMAIN planted}
  IN  {end} \cup {s \in cand : ULt(i, s) /\ ULeq(s, end)
                                 /\ Matches(targetHash, s)}

\* i++, repeated over the iterations that find no match and read found as 0;
\* at i = end the increment wraps at 32 bits
NextExamined(i, end) ==
  IF i = end THEN UAdd(i, 1)
  ELSE CHOOSE s \in Landmarks(i, end) :
         \A u \in Landmarks(i, end) : ULeq(s, u)

\* unsigned int range = MAX_SEED / threads
range == UDiv(MAX_SEED, threads)

\* the thread count, the hash and the target
OnlineInputs ==
  /\ threads \in 1 .. MaxThreads
  /\ hashTab = [s \in HashSeeds |-> 0]
  /\ \E P \in SUBSET PlantSeeds :
       /\ Cardinality(P) <= MaxPlanted
       /\ planted = [s \in P |-> 1]
  /\ hashLen = 1
  /\ charSigned = TRUE
  /\ chainLen = 0
  /\ targetHash = <<1>>
  /\ mi = 0
  /\ start = 0
  /\ found = 0
  /\ seed = <<>>
  /\ opt = [w \in Workers |-> [start |-> 0, end |-> 0]]
  /\ wpc = [w \in Workers |-> "unborn"]
  /\ wi = [w \in Workers |-> 0]
  /\ result = 0
  /\ table = <<>> /\ orig = <<>>
  /\ j = 0 /\ r = 0 /\ index = 0 /\ cur = <<>> /\ rejected = {}
  /\ args = <<>> /\ wret = <<>> /\ mutex = 0
  /\ genChainNum = 0 /\ tableFile = <<>> /\ status = 0
  /\ NameIdle

InitOnline ==
  /\ pc = "create"
  /\ fault = "none"
  /\ OnlineInputs

onlineFixed ==
  <<fault, sortVars, hashVars, j, r, index, cur, rejected, args, wret, mutex,
    genChainNum, tableFile, status, nameVars, threads>>

\* one round of the creation loop: fill opt[i], pthread_create, start += range
\* (the loop is reached when resolveHashFunc gave a function)
OnlineCreate ==
  /\ pc = "create"
  /\ fault = "none"
  /\ mi < threads
  /\ opt' = [opt EXCEPT ![mi] =
               [start |-> start,
                end   |-> IF mi = threads - 1 THEN MAX_SEED
                          ELSE UAdd(start, range)]]
  /\ wpc' = [wpc EXCEPT ![mi] = "init"]
  /\ start' = UAdd(start, range)
  /\ IF mi + 1 < threads
     THEN mi' = mi + 1 /\ pc' = "create"
     ELSE mi' = 0 /\ pc' = "join"
  /\ UNCHANGED <<onlineFixed, wi, found, seed, result>>

\* i = opt->start and the first test of i <= opt->end
WorkerInit(w) ==
  /\ wpc[w] = "init"
  /\ wi' = [wi EXCEPT ![w] = opt[w].start]
  /\ wpc' = [wpc EXCEPT ![w] =
               IF ULeq(opt[w].start, opt[w].end) THEN "test" ELSE "done"]
  /\ UNCHANGED <<onlineFixed, pc, mi, start, opt, found, seed, result>>

\* if (!memcmp(...))
WorkerTest(w) ==
  /\ wpc[w] = "test"
  /\ wpc' = [wpc EXCEPT ![w] =
               IF Matches(targetHash, wi[w]) THEN "store" ELSE "poll"]
  /\ UNCHANGED <<onlineFixed, pc, mi, start, opt, wi, found, seed, result>>

\* *(opt->found) = 1
WorkerStoreFound(w) ==
  /\ wpc[w] \in {"store", "storeFound"}
  /\ found' = 1
  /\ wpc' = [wpc EXCEPT ![w] =
               IF wpc[w] = "store" THEN "storeSeed" ELSE "poll"]
  /\ UNCHANGED <<onlineFixed, pc, mi, start, opt, wi, seed, result>>

\* *(opt->seed) = i
WorkerStoreSeed(w) ==
  /\ wpc[w] \in {"store", "storeSeed"}
  /\ seed' = <<wi[w]>>
  /\ wpc' = [wpc EXCEPT ![w] =
               IF wpc[w] = "store" THEN "storeFound" ELSE "poll"]
  /\ UNCHANGED <<onlineFixed, pc, mi, start, opt, wi, found, result>>

\* if (*(opt->found)) break; else i++ and the test of i <= opt->end
WorkerPoll(w) ==
  /\ wpc[w] = "poll"
  /\ IF found # 0
     THEN /\ wpc' = [wpc EXCEPT ![w] = "done"]
          /\ wi' = wi
     ELSE LET n == NextExamined(wi[w], opt[w].end)
          IN  /\ wi' = [wi EXCEPT ![w] = n]
              /\ wpc' = [wpc EXCEPT ![w] =
                           IF ULeq(n, opt[w].end) THEN "test" ELSE "done"]
  /\ UNCHANGED <<onlineFixed, pc, mi, start, opt, found, seed, result>>

\* pthread_join(tid[i], NULL) in turn; after the last one, return found
OnlineJoin ==
  /\ pc = "join"
  /\ wpc[mi] = "done"
  /\ IF mi + 1 < threads
     THEN /\ mi' = mi + 1 /\ pc' = "join"
          /\ UNCHANGED result
     ELSE /\ mi' = mi /\ pc' = "returned"
          /\ result' = found
  /\ UNCHANGED <<onlineFixed, start, opt, wpc, wi, found, seed>>

WorkerStep(w) ==
  \/ WorkerInit(w)
  \/ WorkerTest(w)
  \/ WorkerStoreFound(w)
  \/ WorkerStoreSeed(w)
  \/ WorkerPoll(w)

NextOnline ==
  \/ OnlineCreate
  \/ OnlineJoin
  \/ \E w \in Workers : WorkerInit(w)
  \/ \E w \in Workers : WorkerTest(w)
  \/ \E w \in Workers : WorkerStoreFound(w)
  \/ \E w \in Workers : WorkerStoreSeed(w)
  \/ \E w \in Workers : WorkerPoll(w)

\* the creating thread and every worker thread keep being scheduled
SpecOnline ==
  /\ InitOnline
  /\ [][NextOnline]_vars
  /\ WF_vars(OnlineCreate \/ OnlineJoin)
  /\ \A w \in 0 .. (MaxThreads - 1) : WF_vars(w \in Workers /\ WorkerStep(w))

\* seed s lies in the inclusive range worker w scans
InRange(w, s) == ULeq(opt[w].start, s) /\ ULeq(s, opt[w].end)

\* both ends of the seed space, and the ends of every range with the seeds
\* next to them: ranges are intervals, so a gap or an overlap shows at one
ProbeSeeds ==
  {0, MAX_SEED} \cup
  UNION {{opt[w].start, opt[w].end, UAdd(opt[w].start, -1),
          UAdd(opt[w].end, 1)} : w \in Workers}

\* C6: once the T workers have their ranges, every seed of [0, 2^32 - 1]
\* lies in the inclusive range [start, end] of exactly one worker.
C6_PartitionCoverage ==
  pc \in {"join", "returned"} =>
    \A s \in ProbeSeeds : Cardinality({w \in Workers : InRange(w, s)}) = 1

\* what the ranges do satisfy: no seed is left out
RangesCoverSeedSpace ==
  pc \in {"join", "returned"} =>
    \A s \in ProbeSeeds : \E w \in Workers : InRange(w, s)

\* C7: every worker returns (its range exhausted, or found seen set), all
\* workers are joined and searchHashOnline returns, whatever the target.
C7_Termination == <>(pc = "returned")

\* the seeds that hash to the target
Matching ==
  {s \in DOMAIN planted \cup {UAdd(p, k) : p \in PlantSeeds, k \in HashSeeds} :
     SameDigest(hashFunc(s), targetHash)}

\* C8: after the join, found is set whenever some seed hashes to the
\* target, and the seed handed back then hashes to the target; with exactly
\* one matching seed it is that seed.
C8_RacyResult ==
  pc = "returned" =>
    /\ Matching # {} => /\ result = 1
                        /\ seed # <<>>
                        /\ SameDigest(hashFunc(seed[1]), targetHash)
    /\ \A s \in Matching : Matching = {s} => seed = <<s>>

\* two workers, the one planted seed 0xDEADBEEF, found and handed back
C8_Witness ==
  /\ pc = "returned"
  /\ threads >= 2
  /\ Matching = {-559038737}
  /\ result = 1
  /\ seed = <<-559038737>>

----------------------------------------------------------------------------
(* Generator pool: createRainbowTable and its chainGenerationWorker        *)
(* threads.  The file is the sequence of the blocks fwrite accepted, each  *)
(* with the worker that wrote it and its number of 8-byte chain records.   *)

WORKER_BUFFER_SIZE == 8192

MaxBlocks == 2
MaxSmallChains == 3

\* chain counts: fewer chains than threads, and counts around the multiples
\* of the block size
GenChainNums ==
  (0 .. MaxSmallChains) \cup
  {k * WORKER_BUFFER_SIZE + d : k \in 1 .. MaxBlocks, d \in {-1, 0, 1}}

\* args[i].chainNum with the remainder forgotten
QuotaOf_noRemainder(i, cNum, tNum) == UDiv(cNum, tNum)

\* args[i].chainNum = (i < threadNum - 1) ? chainNum / threadNum
\*                      : chainNum / threadNum + chainNum % threadNum
QuotaOf(i, cNum, tNum) ==
  IF i < tNum - 1 THEN UDiv(cNum, tNum)
  ELSE UAdd(UDiv(cNum, tNum), UMod(cNum, tNum))

\* the bound of the block loop: data->chainNum / WORKER_BUFFER_SIZE + 1
BlockRounds(q) == UAdd(UDiv(q, WORKER_BUFFER_SIZE), 1)

\* chainsLeft of block i of a worker asked for q chains
ChainsLeft(i, q) ==
  IF ULt(i, UDiv(q, WORKER_BUFFER_SIZE)) THEN WORKER_BUFFER_SIZE
  ELSE UMod(q, WORKER_BUFFER_SIZE)

\* what fwrite may return when it fails to write n items
ShortCounts(n) == {0, n - 1}

\* status |= (int)ret, for the values 0 and -1 the workers return
OrStatus(a, b) == IF a = 0 THEN b ELSE IF b = 0 THEN a ELSE -1

RECURSIVE RecordsIn(_)
RecordsIn(f) == IF f = <<>> THEN 0 ELSE Head(f).n + RecordsIn(Tail(f))

\* the records worker w has in the file
Contributed(w) == RecordsIn(SelectSeq(tableFile, LAMBDA b : b.by = w))

InitGen ==
  /\ pc = "open"
  /\ fault = "none"
  /\ genChainNum \in GenChainNums
  /\ threads \in 1 .. MaxThreads
  /\ mi = 0
  /\ args = [w \in Workers |-> 0]
  /\ wpc = [w \in Workers |-> "unborn"]
  /\ wi = [w \in Workers |-> 0]
  /\ wret = [w \in Workers |-> 0]
  /\ mutex = 0
  /\ tableFile = <<>>
  /\ status = 0
  /\ result = 0
  /\ start = 0 /\ opt = <<>> /\ found = 0
  /\ table = <<>> /\ orig = <<>>
  /\ HashIdle
  /\ LookupIdle
  /\ NameIdle

genFixed ==
  <<fault, sortVars, hashVars, lookupVars, nameVars, start, opt, found,
    genChainNum, threads>>

\* fopen(tableName, "w") and the two malloc calls succeed
GenOpen ==
  /\ pc = "open"
  /\ pc' = "spawn"
  /\ UNCHANGED <<genFixed, mi, args, wpc, wi, wret, mutex, tableFile,
                 status, result>>

\* fopen or one of the malloc calls returns NULL: return -1
GenOpenFail ==
  /\ pc = "open"
  /\ result' = -1
  /\ pc' = "returned"
  /\ UNCHANGED <<genFixed, mi, args, wpc, wi, wret, mutex, tableFile,
                 status>>

\* one round of the creation loop: fill args[i], pthread_create
GenSpawn ==
  /\ pc = "spawn"
  /\ mi < threads
  /\ args' = [args EXCEPT ![mi] = QuotaOf(mi, genChainNum, threads)]
  /\ wpc' = [wpc EXCEPT ![mi] = "fill"]
  /\ IF mi + 1 < threads
     THEN mi' = mi + 1 /\ pc' = "spawn"
     ELSE mi' = 0 /\ pc' = "join"
  /\ UNCHANGED <<genFixed, wi, wret, mutex, tableFile, status, result>>

\* the test of the block loop and, inside it, the filling of buffer
GenFill(w) ==
  /\ wpc[w] = "fill"
  /\ IF ULt(wi[w], BlockRounds(args[w]))
     THEN /\ wpc' = [wpc EXCEPT ![w] = "lock"]
          /\ wret' = wret
     ELSE /\ wpc' = [wpc EXCEPT ![w] = "done"]
          /\ wret' = [wret EXCEPT ![w] = 0]
  /\ UNCHANGED <<genFixed, pc, mi, args, wi, mutex, tableFile, status,
                 result>>

\* pthread_mutex_lock(&mutex)
GenLock(w) ==
  /\ wpc[w] = "lock"
  /\ mutex = 0
  /\ mutex' = w + 1
  /\ wpc' = [wpc EXCEPT ![w] = "write"]
  /\ UNCHANGED <<genFixed, pc, mi, args, wi, wret, tableFile, status,
                 result>>

\* fwrite(buffer, sizeof(chain), chainsLeft, ...) returns chainsLeft
GenWrite(w) ==
  /\ wpc[w] = "write"
  /\ LET n == ChainsLeft(wi[w], args[w])
     IN  tableFile' = IF n = 0 THEN tableFile
                      ELSE Append(tableFile, [by |-> w, n |-> n])
  /\ wpc' = [wpc EXCEPT ![w] = "unlock"]
  /\ UNCHANGED <<genFixed, pc, mi, args, wi, wret, mutex, status, result>>

\* fwrite returns less than chainsLeft
GenWriteShort(w) ==
  /\ wpc[w] = "write"
  /\ ChainsLeft(wi[w], args[w]) > 0
  /\ \E n \in ShortCounts(ChainsLeft(wi[w], args[w])) :
       tableFile' = IF n = 0 THEN tableFile
                    ELSE Append(tableFile, [by |-> w, n |-> n])
  /\ wpc' = [wpc EXCEPT ![w] = "unlockFail"]
  /\ UNCHANGED <<genFixed, pc, mi, args, wi, wret, mutex, status, result>>

\* pthread_mutex_unlock(&mutex), then i++ or return (void *)-1
GenUnlock(w) ==
  /\ wpc[w] \in {"unlock", "unlockFail"}
  /\ mutex' = 0
  /\ IF wpc[w] = "unlock"
     THEN /\ wi' = [wi EXCEPT ![w] = UAdd(wi[w], 1)]
          /\ wpc' = [wpc EXCEPT ![w] = "fill"]
          /\ wret' = wret
     ELSE /\ wi' = wi
          /\ wpc' = [wpc EXCEPT ![w] = "done"]
          /\ wret' = [wret EXCEPT ![w] = -1]
  /\ UNCHANGED <<genFixed, pc, mi, args, tableFile, status, result>>

\* pthread_join(tid[i], &ret); status |= (int)ret; after the last one the
\* frees, fclose and the return
GenJoin ==
  /\ pc = "join"
  /\ wpc[mi] = "done"
  /\ status' = OrStatus(status, wret[mi])
  /\ IF mi + 1 < threads
     THEN /\ mi' = mi + 1 /\ pc' = "join"
          /\ UNCHANGED result
     ELSE /\ mi' = mi /\ pc' = "returned"
          /\ result' = IF status' # 0 THEN -1 ELSE 1
  /\ UNCHANGED <<genFixed, args, wpc, wi, wret, mutex, tableFile>>

NextGen ==
  \/ GenOpen
  \/ GenOpenFail
  \/ GenSpawn
  \/ GenJoin
  \/ \E w \in Workers : GenFill(w)
  \/ \E w \in Workers : GenLock(w)
  \/ \E w \in Workers : GenWrite(w)
  \/ \E w \in Workers : GenWriteShort(w)
  \/ \E w \in Workers : GenUnlock(w)

SpecGen == InitGen /\ [][NextGen]_vars

----------------------------------------------------------------------------
(* Table-name codec: generateTableName and parseTablename.  A C string is  *)
(* the sequence of its characters.  The names of the model keep every      *)
(* numeric field below 2^31 and every token below MAX_FUNC_NAME.           *)

Digits == <<"0", "1", "2", "3", "4", "5", "6", "7", "8", "9">>

IsDigit(c) == \E d \in 1 .. 10 : Digits[d] = c

DigitVal(c) == (CHOOSE d \in 1 .. 10 : Digits[d] = c) - 1

\* what %u prints
RECURSIVE Dec(_)
Dec(n) == IF n < 10 THEN <<Digits[n + 1]>>
          ELSE Dec(n \div 10) \o <<Digits[(n % 10) + 1]>>

\* snprintf(buffer, 512, "%s.%u.%u.%u.rt", ...): at most 511 characters
generateTableName(hashName, cNum, cLen, idx) ==
  LET full == hashName \o <<".">> \o Dec(cNum) \o <<".">> \o Dec(cLen)
                \o <<".">> \o Dec(idx) \o <<".", "r", "t">>
  IN  IF Len(full) > 511 THEN SubSeq(full, 1, 511) ELSE full

\* basename() of <libgen.h>: trailing slashes dropped, then what follows
\* the last slash; "." for the empty string, "/" for a string of slashes
RECURSIVE StripSlashes(_)
StripSlashes(s) ==
  IF s # <<>> /\ s[Len(s)] = "/" THEN StripSlashes(SubSeq(s, 1, Len(s) - 1))
  ELSE s

RECURSIVE AfterLastSlash(_, _)
AfterLastSlash(s, p) ==
  IF p = 0 THEN s
  ELSE IF s[p] = "/" THEN SubSeq(s, p + 1, Len(s))
  ELSE AfterLastSlash(s, p - 1)

basename(path) ==
  IF path = <<>> THEN <<".">>
  ELSE IF StripSlashes(path) = <<>> THEN <<"/">>
  ELSE AfterLastSlash(StripSlashes(path), Len(StripSlashes(path)))

\* strchr(s, c): the position of the first c, 0 for NULL
RECURSIVE strchr(_, _, _)
strchr(s, c, p) ==
  IF p > Len(s) THEN 0
  ELSE IF s[p] = c THEN p
  ELSE strchr(s, c, p + 1)

\* sscanf: skip white space from position p
RECURSIVE SkipWs(_, _)
SkipWs(s, p) == IF p <= Len(s) /\ s[p] = " " THEN SkipWs(s, p + 1) ELSE p

\* sscanf %s: the end of the run of non-space characters from p
RECURSIVE TokenEnd(_, _)
TokenEnd(s, p) == IF p <= Len(s) /\ s[p] # " " THEN TokenEnd(s, p + 1) ELSE p

\* sscanf %u: the end of the run of digits from p
RECURSIVE DigitsEnd(_, _)
DigitsEnd(s, p) ==
  IF p <= Len(s) /\ IsDigit(s[p]) THEN DigitsEnd(s, p + 1) ELSE p

RECURSIVE DecValue(_, _)
DecValue(s, acc) ==
  IF s = <<>> THEN acc
  ELSE DecValue(Tail(s), acc * 10 + DigitVal(Head(s)))

\* one %u of the format: [ok, val, next]
ScanUnsigned(s, p) ==
  LET b == SkipWs(s, p)
      e == DigitsEnd(s, b)
  IN  IF e = b THEN [ok |-> FALSE, val |-> 0, next |-> b]
      ELSE [ok |-> TRUE, val |-> DecValue(SubSeq(s, b, e - 1), 0),
            next |-> e]

\* a '.' of the format: the next character has to be one
DotAt(s, p) == p <= Len(s) /\ s[p] = "."

\* sscanf(s, "%s %u.%u.%u.rt", hashFuncName, chainNum, chainLen, &index):
\* what each of the first three targets holds afterwards, <<>> for a target
\* sscanf did not reach
sscanfName(s) ==
  LET b  == SkipWs(s, 1)
      e  == TokenEnd(s, b)
      n1 == ScanUnsigned(s, SkipWs(s, e))
      n2 == ScanUnsigned(s, n1.next + 1)
      none == [name |-> <<>>, num |-> <<>>, len |-> <<>>]
  IN  IF e = b THEN none
      ELSE IF ~n1.ok THEN [none EXCEPT !.name = <<SubSeq(s, b, e - 1)>>]
      ELSE IF ~(DotAt(s, n1.next) /\ n2.ok)
        THEN [name |-> <<SubSeq(s, b, e - 1)>>, num |-> <<n1.val>>,
              len |-> <<>>]
      ELSE [name |-> <<SubSeq(s, b, e - 1)>>, num |-> <<n1.val>>,
            len |-> <<n2.val>>]

\* parseTablename: [ret, name, num, len]
parseTablename(tname) ==
  LET tableBasename == basename(tname)
      dotPos == strchr(tableBasename, ".", 1)
  IN  IF dotPos = 0
      THEN [ret |-> -1, name |-> <<>>, num |-> <<>>, len |-> <<>>]
      ELSE LET got == sscanfName([tableBasename EXCEPT ![dotPos] = " "])
           IN  [ret |-> 1, name |-> got.name, num |-> got.num,
                len |-> got.len]

MaxNameLen == 4
MaxNameNum == 2

\* the characters of the file names handed to parseTablename as they are
NameChars == {"a", "1", ".", "r", "t", "/"}

\* a file name is not empty
RawNames == UNION {[1 .. k -> NameChars] : k \in 1 .. MaxNameLen}

HashNames == {<<"a">>, <<"t", "1">>}

\* field values of one and of more decimal digits
NameNums == (0 .. MaxNameNum) \cup {10, 1000}

NameArgs ==
  [hashName : HashNames, chainNum : NameNums, chainLen : NameNums,
   index : {0, 1}]

InitName ==
  /\ \/ /\ pc = "format"
        /\ \E a \in NameArgs : nameArgs = <<a>>
        /\ tablename = <<>>
     \/ /\ pc = "parse"
        /\ nameArgs = <<>>
        /\ tablename \in RawNames
  /\ hashFuncName = <<>>
  /\ outChainNum = <<>>
  /\ outChainLen = <<>>
  /\ result = 0
  /\ fault = "none"
  /\ table = <<>> /\ orig = <<>>
  /\ HashIdle
  /\ LookupIdle
  /\ PoolIdle

\* a table is generated under the name generateTableName gives it
GenerateTableName ==
  /\ pc = "format"
  /\ tablename' = generateTableName(nameArgs[1].hashName,
                                    nameArgs[1].chainNum,
                                    nameArgs[1].chainLen, nameArgs[1].index)
  /\ pc' = "parse"
  /\ UNCHANGED <<fault, sortVars, hashVars, lookupVars, poolVars, result,
                 nameArgs,
                 hashFuncName, outChainNum, outChainLen>>

\* searchRainbowTable's call parseTablename(tableName, hashFuncName,
\* &chainNum, &chainLen)
ParseTablename ==
  /\ pc = "parse"
  /\ LET p == parseTablename(tablename)
     IN  /\ result' = p.ret
         /\ hashFuncName' = p.name
         /\ outChainNum' = p.num
         /\ outChainLen' = p.len
  /\ pc' = "parsed"
  /\ UNCHANGED <<fault, sortVars, hashVars, lookupVars, poolVars, tablename,
                 nameArgs>>

NextName == GenerateTableName \/ ParseTablename

SpecName == InitName /\ [][NextName]_vars

\* the fields of s between its dots
RECURSIVE Fields(_)
Fields(s) ==
  LET d == strchr(s, ".", 1)
  IN  IF d = 0 THEN <<s>>
      ELSE <<SubSeq(s, 1, d - 1)>> \o Fields(SubSeq(s, d + 1, Len(s)))

IsDecimal(f) == f # <<>> /\ \A k \in 1 .. Len(f) : IsDigit(f[k])

\* <hash_name>.<chain_num>.<chain_len>.<index>.rt
WellFormedName(b) ==
  LET f == Fields(b)
  IN  /\ Len(f) = 5
      /\ f[1] # <<>>
      /\ IsDecimal(f[2]) /\ IsDecimal(f[3]) /\ IsDecimal(f[4])
      /\ f[5] = <<"r", "t">>

\* C10: parseTablename succeeds exactly on a basename of the form
\* <hash_name>.<chain_num>.<chain_len>.<index>.rt, then with chain_num and
\* chain_len set, to the values generateTableName was given if it made the
\* name; on any other name it fails.
C10_NameDecoding ==
  pc = "parsed" =>
    /\ (result = 1) <=> WellFormedName(basename(tablename))
    /\ result = 1 => outChainNum # <<>> /\ outChainLen # <<>>
    /\ nameArgs # <<>> =>
         /\ result = 1
         /\ hashFuncName = <<nameArgs[1].hashName>>
         /\ outChainNum = <<nameArgs[1].chainNum>>
         /\ outChainLen = <<nameArgs[1].chainLen>>

\* what the code does: the result only tells whether the basename has a dot
ParseFailsOnlyWithoutDot ==
  pc = "parsed" =>
    /\ (result = 1) <=> strchr(basename(tablename), ".", 1) # 0
    /\ result \in {1, -1}
    /\ nameArgs # <<>> =>
         /\ result = 1
         /\ hashFuncName = <<nameArgs[1].hashName>>
         /\ outChainNum = <<nameArgs[1].chainNum>>
         /\ outChainLen = <<nameArgs[1].chainLen>>

----------------------------------------------------------------------------
(* reduce on its own: the call r = reduce(targetHash, hashLen, j) that     *)
(* searchHashInMemory makes for the last position of a chain, for digests  *)
(* of one to MaxReduceLen bytes, on builds with signed and with unsigned   *)
(* plain char.                                                             *)

MaxReduceLen == 9

\* digest bytes below and from 0x80
ReduceBytes == {1, 128, 255}

ReduceDigests ==
  UNION {[1 .. n -> ReduceBytes] : n \in 1 .. MaxReduceLen}
    \cup {<<1, 2, 3, 4, 5>>}

ReduceRounds == {0, 1, MAX_SEED}

InitReduce ==
  /\ pc = "reduce"
  /\ fault = "none"
  /\ targetHash \in ReduceDigests
  /\ hashLen = Len(targetHash)
  /\ charSigned \in BOOLEAN
  /\ j \in ReduceRounds
  /\ r = 0
  /\ chainLen = 0 /\ hashTab = <<>> /\ planted = <<>>
  /\ index = 0 /\ cur = <<>> /\ seed = <<>> /\ rejected = {}
  /\ table = <<>> /\ orig = <<>>
  /\ result = 0
  /\ PoolIdle
  /\ NameIdle

\* r = reduce(tmpHash, hashLen, i)
Reduce ==
  /\ pc = "reduce"
  /\ r' = reduce(targetHash, hashLen, j)
  /\ pc' = "reduced"
  /\ UNCHANGED <<fault, poolVars, nameVars, sortVars, hashVars, j, index, cur,
                 seed, rejected, result>>

NextReduce == Reduce

SpecReduce == InitReduce /\ [][NextReduce]_vars

\* the XOR of the little-endian 32-bit words k .. n-1 of digest d
RECURSIVE WordFold(_, _, _)
WordFold(d, k, n) ==
  IF k >= n THEN 0
  ELSE UXor(Word(d[4*k + 4] \div 128,
                 d[4*k + 1] + 256 * d[4*k + 2] + 65536 * d[4*k + 3]
                   + 16777216 * (d[4*k + 4] % 128)),
            WordFold(d, k + 1, n))

\* acc plus the bytes at positions len-1-i, i = k .. (len mod 4) - 1, each
\* as a value 0..255
RECURSIVE ByteSum(_, _, _)
ByteSum(d, k, acc) ==
  IF k >= Len(d) % 4 THEN acc
  ELSE ByteSum(d, k + 1, UAdd(acc, d[Len(d) - k]))

\* C11: reduce returns (the XOR of the first floor(digest_len/4) words
\* plus the digest_len mod 4 trailing bytes, each taken as a value 0..255)
\* mod 2^32, XORed with round.
C11_ReductionValue ==
  pc = "reduced" =>
    r = UXor(ByteSum(targetHash, 0, WordFold(targetHash, 0, hashLen \div 4)),
             j)

\* what the code does: the value of the claim where plain char is unsigned
\* or no trailing byte is 0x80 or more; reduce([1,2,3,4,5], 5, 0) = 0x04030206
ReduceWithoutSignExtension ==
  pc = "reduced" =>
    /\ (\/ ~charSigned
        \/ \A k \in 0 .. ((hashLen % 4) - 1) : targetHash[hashLen - k] < 128)
         => r = UXor(ByteSum(targetHash, 0,
                             WordFold(targetHash, 0, hashLen \div 4)), j)
    /\ (targetHash = <<1, 2, 3, 4, 5>> /\ j = 0) => r = 67305990

----------------------------------------------------------------------------
(* generateRainbowTable: resolve the hash, createRainbowTable (the         *)
(* generator pool above), sortRainbowTable, and the value handed back.     *)
(* The order of the records is left to SpecSort; here sortRainbowTable is  *)
(* its system calls and its return value.                                  *)

GenerateFaults == {"none", "resolve", "open", "fstat", "mmap"}

InitGenerate ==
  /\ pc = "resolve"
  /\ fault \in GenerateFaults
  /\ genChainNum \in GenChainNums
  /\ threads \in 1 .. MaxThreads
  /\ mi = 0
  /\ args = [w \in Workers |-> 0]
  /\ wpc = [w \in Workers |-> "unborn"]
  /\ wi = [w \in Workers |-> 0]
  /\ wret = [w \in Workers |-> 0]
  /\ mutex = 0
  /\ tableFile = <<>>
  /\ status = 0
  /\ result = 0
  /\ start = 0 /\ opt = <<>> /\ found = 0
  /\ table = <<>> /\ orig = <<>>
  /\ HashIdle
  /\ LookupIdle
  /\ NameIdle

\* resolveHashFunc: NULL returns -1, else createRainbowTable is called
GenerateResolve ==
  /\ pc = "resolve"
  /\ IF fault = "resolve"
     THEN result' = -1 /\ pc' = "generated"
     ELSE result' = result /\ pc' = "open"
  /\ UNCHANGED <<genFixed, mi, args, wpc, wi, wret, mutex, tableFile,
                 status>>

\* createRainbowTable(...) < 0: the || is decided, return -1
GenerateCreateFailed ==
  /\ pc = "returned"
  /\ result < 0
  /\ result' = -1
  /\ pc' = "generated"
  /\ UNCHANGED <<genFixed, mi, args, wpc, wi, wret, mutex, tableFile,
                 status>>

\* what sortRainbowTable returns when call f fails
sortRainbowTable(f) ==
  IF f = "open" THEN -1
  ELSE IF f = "fstat" THEN -1
  ELSE IF f = "mmap" THEN 1
  ELSE 1

\* createRainbowTable gave 1: sortRainbowTable(tableName, chainNum)
SortRainbowTable ==
  /\ pc = "returned"
  /\ result >= 0
  /\ result' = sortRainbowTable(fault)
  /\ pc' = "sortReturned"
  /\ UNCHANGED <<genFixed, mi, args, wpc, wi, wret, mutex, tableFile,
                 status>>

\* sortRainbowTable(...) < 0 gives -1, else free(tableName) and return 1
GenerateReturn ==
  /\ pc = "sortReturned"
  /\ result' = IF result < 0 THEN -1 ELSE 1
  /\ pc' = "generated"
  /\ UNCHANGED <<genFixed, mi, args, wpc, wi, wret, mutex, tableFile,
                 status>>

NextGenerate ==
  \/ GenerateResolve
  \/ NextGen
  \/ GenerateCreateFailed
  \/ SortRainbowTable
  \/ GenerateReturn

SpecGenerate == InitGenerate /\ [][NextGenerate]_vars

\* every worker was joined with return value 0 and the file is complete
CreationSucceeded ==
  /\ \A w \in Workers : wpc[w] = "done" /\ wret[w] = 0
  /\ RecordsIn(tableFile) = genChainNum

\* C12: generateRainbowTable returns Ok only if creation and sorting both
\* succeeded: a failed or short append by any worker, or a failure of
\* resolve, open, fstat or mmap, makes it return Error.
C12_GenerateErrors ==
  pc = "generated" =>
    (result = 1 <=> (fault = "none" /\ CreationSucceeded))

\* what the code does: a failed mmap in sortRainbowTable goes unreported
GenerateOkDespiteMmap ==
  pc = "generated" =>
    /\ result \in {1, -1}
    /\ result = 1 => fault \in {"none", "mmap"} /\ CreationSucceeded
    /\ (fault \in {"resolve", "open", "fstat"}) => result = -1

----------------------------------------------------------------------------
(* The outcome of the two search operations, searchRainbowTable and        *)
(* searchHashOnline, when one of the calls they make before searching      *)
(* fails: 1 is Found, 0 NotFound, -1 Error.                                *)

\* "name": parseTablename gives -1
SearchFaults == {"none", "name", "resolve", "open", "fstat", "mmap"}

CrackFaults == {"none", "resolve"}

InitOutcome ==
  \/ /\ pc = "generate"
     /\ fault \in SearchFaults
     /\ LookupInputs
  \/ /\ pc = "create"
     /\ fault \in CrackFaults
     /\ OnlineInputs

\* searchRainbowTable: parseTablename, resolveHashFunc, open, fstat or mmap
\* fails: return -1
SearchRainbowTableError ==
  /\ pc = "sorted"
  /\ fault # "none"
  /\ result' = -1
  /\ pc' = "done"
  /\ UNCHANGED <<fault, poolVars, nameVars, sortVars, hashVars, lookupVars>>

\* searchHashOnline: if (hashFunc == NULL) return 0
OnlineUnknownHash ==
  /\ pc = "create"
  /\ mi = 0
  /\ fault = "resolve"
  /\ result' = 0
  /\ pc' = "returned"
  /\ UNCHANGED <<onlineFixed, mi, start, opt, wpc, wi, found, seed>>

NextOutcome ==
  \/ NextLookup
  \/ SearchRainbowTableError
  \/ NextOnline
  \/ OnlineUnknownHash

SpecOutcome == InitOutcome /\ [][NextOutcome]_vars

\* C13: each of the two operations returns Found, NotFound or Error;
\* NotFound only when the search ran; an unknown hash name gives Error in
\* both, never NotFound, and no search worker is started.
C13_TriState ==
  pc \in {"done", "returned"} =>
    /\ result \in {1, 0, -1}
    /\ result = 0 => fault = "none"
    /\ fault = "resolve" =>
         /\ result = -1
         /\ \A w \in DOMAIN wpc : wpc[w] = "unborn"

\* what the code does: searchRainbowTable reports every failure as -1,
\* searchHashOnline reports an unknown hash as 0; no worker is started
OutcomeOfFailedSetup ==
  pc \in {"done", "returned"} =>
    /\ result \in {1, 0, -1}
    /\ (fault # "none" /\ pc = "done") => result = -1
    /\ (fault # "none" /\ pc = "returned") => result = 0
    /\ fault # "none" => \A w \in DOMAIN wpc : wpc[w] = "unborn"
    /\ fault = "none" => result \in {0, 1}

----------------------------------------------------------------------------
(* Bounds of the lookup's reads, under SpecLookup.  At pc = "cond" the     *)
(* do/while is about to read table[index]; at pc = "regen" it is about to  *)
(* regenerate the chain of the record cur it read.                         *)

\* the do/while condition reads inside the table
CondReadInBounds == pc = "cond" => (0 <= index /\ index < Len(table))

\* the record handed to regenerateChain has the searched endpoint
TriesOnlyMatchingRecords == pc = "regen" => cur.endpoint = r

\* C14: searchHashInMemory and searchTable only read table[idx] with
\* 0 <= idx < chain_num: the enumeration of equal endpoints stops at
\* idx = chain_num, and it tries only records whose endpoint is r.
C14_LookupInBounds == CondReadInBounds /\ TriesOnlyMatchingRecords

====
